---- MODULE Spec2Model ----
(***************************************************************************)
(* Model of the volunteer timesheet application (timecardEntry/app.py) and *)
(* of the admin dashboard (adminDashboard/admin.py) over their shared      *)
(* PostgreSQL tables `projects` and `timesheets`.                          *)
(*                                                                         *)
(* Dates are day ordinals; day 0 is a Monday, so Python's weekday() is     *)
(* d % 7.  Grid hours are floats, written here in thousandths of an hour;  *)
(* the column timesheets.hours is DECIMAL(5,2), written in hundredths.     *)
(* A grid cell is <<h>> for a number h and <<>> for a missing value (NaN). *)
(***************************************************************************)
EXTENDS Integers, Sequences, FiniteSets, TLC

VARIABLES
    projects,            \* table projects: set of [id, name]
    timesheets,          \* table timesheets: set of [id, volunteer_id, project_id, date, hours, status]
    project_id_seq,      \* next value of the SERIAL sequence projects.id
    timesheet_id_seq,    \* next value of the SERIAL sequence timesheets.id
    authentication_status, \* st.session_state["authentication_status"]
    volunteer_id,        \* st.session_state.volunteer_id (NoVolunteer: attribute absent)
    current_week,        \* st.session_state.current_week
    timesheet_df,        \* st.session_state.timesheet_df
    result,              \* what the last operation was called with and what it reported
    in_flight,           \* calls that run step by step: their position, locals and open transaction
    volunteers,          \* table volunteers: email -> password_hash
    admins,              \* table admins: email -> password_hash
    password_reset_tokens, \* table password_reset_tokens: set of [email, token, expired]
    outbox,              \* the mails yagmail has sent: set of [to, token]
    tokens_issued,       \* number of secrets.token_urlsafe() values drawn so far
    retired,             \* tokens that reset a password or were replaced by a newer one
    used_connections     \* connections checked out of the pool of the latest script run

\* the accounts, their reset tokens and the mail
account_vars == <<volunteers, admins, password_reset_tokens, outbox, tokens_issued,
                  retired>>

vars == <<projects, timesheets, project_id_seq, timesheet_id_seq,
          authentication_status, volunteer_id, current_week, timesheet_df, result,
          in_flight, account_vars, used_connections>>

(***************************************************************************)
(* Bounds of the model                                                     *)
(***************************************************************************)
MaxWeekShift == 1        \* Prev/Next clicks explored away from the first week
MaxTimesheetRows == 2    \* rows the timesheets sequence may hand out in a session run
EditRows == 2            \* grid rows the volunteer edits (the others stay blank)
MaxTokens == 2           \* reset tokens drawn in a run

Volunteers == {1, 2}     \* volunteers.id of the registered volunteers
Names == {"Food Bank", "Garden"}         \* the names typed into the grid
\* the project names of the model in string order (the order of a sorted index)
NameOrder == <<" ", "Animal Shelter", "Community Garden", "Food Bank", "Garden",
               "Homeless Shelter", "Local Library">>
DefaultProjects == {"Food Bank"}
PyNone == "None"         \* Python None in the Project column (no project is named so)
NaN == <<>>              \* a missing hours value
Today == 1000            \* day ordinal of datetime.now() at construction: 1000 % 7 = 6, a Sunday

NoVolunteer == 0
GridRows == 5
WeekLen == 7

(***************************************************************************)
(* Calendar and number conversions                                         *)
(***************************************************************************)
\* datetime.weekday(): Monday is 0 ... Sunday is 6
Weekday(d) == d % 7

\* strftime('%m/%d'): month and day, the year is dropped
MonthDay(d) == d % (52 * 7 + 1)

\* f"{date.strftime('%A')}\n{date.strftime('%m/%d')}"
DayLabel(d) == <<Weekday(d), MonthDay(d)>>

\* float -> DECIMAL(5,2): rounded half away from zero to two decimals
ToNumeric(h) == IF h >= 0 THEN (h + 5) \div 10 ELSE 0 - ((5 - h) \div 10)

\* DECIMAL(5,2) holds absolute values below 1000.00
NumericOverflow(n) == n >= 100000 \/ n <= -100000

\* pd.to_numeric on a Decimal: back to a float
ToFloat(n) == n * 10

(***************************************************************************)
(* The grid (a pandas DataFrame): columns are the seven day labels, rows   *)
(* are [Project, Hours] with one hours cell per column.                    *)
(***************************************************************************)
\* get_week_dates() with range(1, 8): the dates start one day late
get_week_dates_Late(week) == [i \in 1..WeekLen |-> week + i]

\* get_week_dates(): the seven dates starting at current_week
get_week_dates(week) == [i \in 1..WeekLen |-> week + (i - 1)]

\* the day_columns list built from the week's dates
DayColumns(week) == [i \in 1..WeekLen |-> DayLabel(get_week_dates(week)[i])]

BlankRow == [Project |-> "", Hours |-> [i \in 1..WeekLen |-> <<0>>]]

\* the blank template: 5 rows, Project "" and 0.0 in every day column
BlankDataframe(week) ==
    [columns |-> DayColumns(week), rows |-> [r \in 1..GridRows |-> BlankRow]]

RECURSIVE SumHours(_)
\* SUM(hours) / aggfunc="sum" over a set of timesheet rows
SumHours(S) ==
    IF S = {} THEN 0
    ELSE LET t == CHOOSE x \in S : TRUE IN t.hours + SumHours(S \ {t})

\* no cut: every row is kept
HeadRows_All(s, n) == s

\* first n elements of a sequence (DataFrame.head(n))
HeadRows(s, n) == IF Len(s) > n THEN SubSeq(s, 1, n) ELSE s

\* the week query with "date >= start AND date < end": the last day is lost
WeekEntries_OpenEnd(ts, ps, vid, week) ==
    {t \in ts : /\ t.volunteer_id = vid
                /\ t.date >= week
                /\ t.date < week + (WeekLen - 1)
                /\ \E p \in ps : p.id = t.project_id}

\* rows of `timesheets JOIN projects` of one volunteer with date BETWEEN start AND end
WeekEntries(ts, ps, vid, week) ==
    {t \in ts : /\ t.volunteer_id = vid
                /\ t.date >= get_week_dates(week)[1]
                /\ t.date <= get_week_dates(week)[WeekLen]
                /\ \E p \in ps : p.id = t.project_id}

ProjectNameOf(ps, pid) == (CHOOSE p \in ps : p.id = pid).name

\* a pivot that puts a project's hours into every day column
PivotRows_AnyDay(entries, ps, week) ==
    LET present == {ProjectNameOf(ps, t.project_id) : t \in entries}
        index   == SelectSeq(NameOrder, LAMBDA n : n \in present)
        cell(n, lbl) ==
            <<ToFloat(SumHours({t \in entries :
                          ProjectNameOf(ps, t.project_id) = n}))>>
    IN [k \in 1..Len(index) |->
           [Project |-> index[k],
            Hours   |-> [i \in 1..WeekLen |-> cell(index[k], DayColumns(week)[i])]]]

\* pivot_table(index="project", columns="day_date", values="hours", aggfunc="sum",
\* fill_value=0), the missing day columns added as 0, the index sorted by name
PivotRows(entries, ps, week) ==
    LET present == {ProjectNameOf(ps, t.project_id) : t \in entries}
        index   == SelectSeq(NameOrder, LAMBDA n : n \in present)
        cell(n, lbl) ==
            <<ToFloat(SumHours({t \in entries :
                          /\ ProjectNameOf(ps, t.project_id) = n
                          /\ DayLabel(t.date) = lbl}))>>
    IN [k \in 1..Len(index) |->
           [Project |-> index[k],
            Hours   |-> [i \in 1..WeekLen |-> cell(index[k], DayColumns(week)[i])]]]

\* create_timesheet_dataframe(): the blank template, or, for an authenticated
\* volunteer with entries in the week, the pivoted entries followed by the
\* template rows, cut to 5 rows
create_timesheet_dataframe(ts, ps, auth, vid, week) ==
    LET df      == BlankDataframe(week)
        entries == WeekEntries(ts, ps, vid, week)
        pivoted == PivotRows(entries, ps, week)
        present == {pivoted[k].Project : k \in 1..Len(pivoted)}
        template_rows == SelectSeq(df.rows, LAMBDA r : r.Project \notin present)
    IN IF auth /\ vid # NoVolunteer /\ entries # {}
       THEN [columns |-> DayColumns(week),
             rows    |-> HeadRows(pivoted \o template_rows, GridRows)]
       ELSE df

(***************************************************************************)
(* save_to_database                                                        *)
(***************************************************************************)
\* melt with the rows of each day column taken bottom-up
Melt_BottomUp(df) ==
    [k \in 1..(Len(df.columns) * Len(df.rows)) |->
        LET j == ((k - 1) \div Len(df.rows)) + 1
            i == Len(df.rows) - ((k - 1) % Len(df.rows))
        IN [Project |-> df.rows[i].Project,
            DayDate |-> df.columns[j],
            Hours   |-> df.rows[i].Hours[j]]]

\* df.melt(id_vars=["Project"]): one record per (day column, row), column by column
Melt(df) ==
    [k \in 1..(Len(df.columns) * Len(df.rows)) |->
        LET j == ((k - 1) \div Len(df.rows)) + 1
            i == ((k - 1) % Len(df.rows)) + 1
        IN [Project |-> df.rows[i].Project,
            DayDate |-> df.columns[j],
            Hours   |-> df.rows[i].Hours[j]]]

\* the filter without its (Project != "") half
Qualifies_AnyProject(cell) ==
    /\ cell.Hours # NaN
    /\ cell.Hours[1] > 0

\* the filter (Hours > 0) & (Project != "") followed by dropna(subset=["Hours"]):
\* NaN > 0 is False, None != "" is True
Qualifies(cell) ==
    /\ cell.Hours # NaN
    /\ cell.Hours[1] > 0
    /\ cell.Project # ""

FilterCells(df) == SelectSeq(Melt(df), Qualifies)

\* a mapping onto the dates of the week after the displayed one
MapDayDate_NextWeek(week, label) ==
    {get_week_dates(week)[i] + WeekLen : i \in {x \in 1..WeekLen : DayColumns(week)[x] = label}}

\* day_date_mapping: label -> date, for the dates of the current week
\* (the empty set when the label is not a key: Series.map gives NaT)
MapDayDate(week, label) ==
    {get_week_dates(week)[i] : i \in {x \in 1..WeekLen : DayColumns(week)[x] = label}}

\* state of the open transaction while the cells are processed
Txn(ps, ts, pseq, tseq) ==
    [projects |-> ps, timesheets |-> ts, pseq |-> pseq, tseq |-> tseq,
     error |-> FALSE, written |-> {}, done |-> 0]

\* the existence check never finds a row: every cell is inserted
ExistingEntries_None(ts, vid, pid, d) == {}

\* "SELECT id FROM timesheets WHERE volunteer_id = .. AND project_id = .. AND date = .."
ExistingEntries(ts, vid, pid, d) ==
    {t \in ts : t.volunteer_id = vid /\ t.project_id = pid /\ t.date = d}

\* UPDATE timesheets SET hours = hours + .., status = ..
UpdateEntry_Accumulate(ts, id, hours, status) ==
    {IF t.id = id THEN [t EXCEPT !.hours = @ + hours, !.status = status] ELSE t : t \in ts}

\* UPDATE timesheets SET hours, status WHERE id = ..
UpdateEntry(ts, id, hours, status) ==
    {IF t.id = id THEN [t EXCEPT !.hours = hours, !.status = status] ELSE t : t \in ts}

\* one iteration of the loop over melted_df: look the project up or create it,
\* then update the existing entry or insert a new one
SaveCell(x, cell, vid, week, status) ==
    LET found   == {p \in x.projects : cell.Project # PyNone /\ p.name = cell.Project}
        create  == found = {}
        \* INSERT INTO projects (name): the sequence advances, name is NOT NULL
        projErr == create /\ cell.Project = PyNone
        pid     == IF create THEN x.pseq ELSE (CHOOSE p \in found : TRUE).id
        ps1     == IF create THEN x.projects \cup {[id |-> pid, name |-> cell.Project]}
                   ELSE x.projects
        pseq1   == IF create THEN x.pseq + 1 ELSE x.pseq
        dates   == MapDayDate(week, cell.DayDate)
        dateErr == dates = {}
        d       == CHOOSE dd \in dates : TRUE
        exist   == ExistingEntries(x.timesheets, vid, pid, d)
        hours   == ToNumeric(cell.Hours[1])
        \* DECIMAL(5,2) overflow and CHECK (hours > 0)
        hoursErr == NumericOverflow(hours) \/ ~(hours > 0)
        \* fetchone(): the first row found
        tid     == IF exist # {}
                   THEN (CHOOSE t \in exist : \A u \in exist : t.id <= u.id).id
                   ELSE x.tseq
    IN IF projErr
       THEN [x EXCEPT !.pseq = pseq1, !.error = TRUE]
       ELSE IF dateErr
       THEN [x EXCEPT !.projects = ps1, !.pseq = pseq1, !.error = TRUE]
       ELSE IF exist # {}
       THEN IF hoursErr
            THEN [x EXCEPT !.projects = ps1, !.pseq = pseq1, !.error = TRUE]
            ELSE [x EXCEPT !.projects = ps1, !.pseq = pseq1,
                           !.timesheets = UpdateEntry(x.timesheets, tid, hours, status),
                           !.written = @ \cup {tid}, !.done = @ + 1]
       ELSE IF hoursErr
            THEN [x EXCEPT !.projects = ps1, !.pseq = pseq1, !.tseq = @ + 1,
                           !.error = TRUE]
            ELSE [x EXCEPT !.projects = ps1, !.pseq = pseq1, !.tseq = @ + 1,
                           !.timesheets = @ \cup
                               {[id |-> tid, volunteer_id |-> vid, project_id |-> pid,
                                 date |-> d, hours |-> hours, status |-> status]},
                           !.written = @ \cup {tid}, !.done = @ + 1]

RECURSIVE SaveCells(_, _, _, _, _)
\* the for loop over melted_df.iterrows(): stops at the first exception
SaveCells(x, cells, vid, week, status) ==
    IF cells = <<>> \/ x.error THEN x
    ELSE SaveCells(SaveCell(x, Head(cells), vid, week, status), Tail(cells),
                   vid, week, status)

\* the except branch without conn.rollback(): what was written stays
EndTransaction_NoRollback(x, ps, ts) == x

\* conn.commit() after the loop, or conn.rollback() in the except branch:
\* the tables as the transaction leaves them (sequences are not rolled back)
EndTransaction(x, ps, ts) ==
    IF x.error
    THEN [x EXCEPT !.projects = ps, !.timesheets = ts, !.written = {}]
    ELSE x

\* a save that first deletes the volunteer's entries of the week and then
\* writes the cells
save_to_database_ReplaceWeek(df, status, ps, ts, pseq, tseq, vid, week) ==
    LET cells == FilterCells(df)
        kept  == {t \in ts : ~(/\ t.volunteer_id = vid
                               /\ t.date >= week
                               /\ t.date < week + WeekLen)}
        x     == SaveCells(Txn(ps, kept, pseq, tseq), cells, vid, week, status)
        y     == EndTransaction(x, ps, ts)
    IN IF vid = NoVolunteer
       THEN [db |-> Txn(ps, ts, pseq, tseq), outcome |-> "no_user", partial |-> 0]
       ELSE IF cells = <<>>
       THEN [db |-> Txn(ps, ts, pseq, tseq), outcome |-> "no_hours", partial |-> 0]
       ELSE [db |-> y,
             outcome |-> IF x.error THEN "error" ELSE "committed",
             partial |-> x.done]

\* save_to_database(df, status) on tables ps, ts: the tables and sequences
\* afterwards, and what was reported
save_to_database(df, status, ps, ts, pseq, tseq, vid, week) ==
    LET cells == FilterCells(df)
        x     == SaveCells(Txn(ps, ts, pseq, tseq), cells, vid, week, status)
        y     == EndTransaction(x, ps, ts)
    IN IF vid = NoVolunteer
       THEN [db |-> Txn(ps, ts, pseq, tseq), outcome |-> "no_user", partial |-> 0]
       ELSE IF cells = <<>>
       THEN [db |-> Txn(ps, ts, pseq, tseq), outcome |-> "no_hours", partial |-> 0]
       ELSE [db |-> y,
             outcome |-> IF x.error THEN "error" ELSE "committed",
             partial |-> x.done]

(***************************************************************************)
(* Admin dashboard operations                                              *)
(***************************************************************************)
\* get_pending_timesheets(): timesheets JOIN volunteers JOIN projects WHERE status = 'Pending'
get_pending_timesheets(ts, ps) ==
    {t \in ts : /\ t.status = "Pending"
                /\ t.volunteer_id \in Volunteers
                /\ \E p \in ps : p.id = t.project_id}

\* approve_timesheet(id): UPDATE timesheets SET status = 'Approved' WHERE id = ..
approve_timesheet(ts, id) ==
    {IF t.id = id THEN [t EXCEPT !.status = "Approved"] ELSE t : t \in ts}

\* delete_project: the COUNT(*) of timesheets joined to the project of that name
ProjectUseCount(ts, ps, name) ==
    Cardinality({t \in ts : \E p \in ps : p.id = t.project_id /\ p.name = name})

\* delete_project without the COUNT(*) check
delete_project_Unchecked(ts, ps, name) ==
    LET gone == {p.id : p \in {q \in ps : q.name = name}}
    IN [projects   |-> {p \in ps : p.name # name},
        timesheets |-> {t \in ts : t.project_id \notin gone},
        ok |-> TRUE, message |-> "deleted successfully"]

\* delete_project(name): refused while hours are logged against the project,
\* else DELETE FROM projects WHERE name = .. (timesheets.project_id is ON DELETE CASCADE)
delete_project(ts, ps, name) ==
    IF ProjectUseCount(ts, ps, name) > 0
    THEN [projects |-> ps, timesheets |-> ts, ok |-> FALSE, message |-> "Cannot delete project"]
    ELSE LET gone == {p.id : p \in {q \in ps : q.name = name}}
         IN [projects   |-> {p \in ps : p.name # name},
             timesheets |-> {t \in ts : t.project_id \notin gone},
             ok |-> TRUE, message |-> "deleted successfully"]

\* SUM(hours) WHERE status = 'Approved' AND volunteer_id = .. (render_statistics,
\* get_volunteer_stats), 0 when there is no such row
ApprovedTotal(ts, vid) ==
    SumHours({t \in ts : t.status = "Approved" /\ t.volunteer_id = vid})

\* get_approved_timesheets(volunteer_id): the approved rows of one volunteer
get_approved_timesheets(ts, ps, vid) ==
    {t \in ts : /\ t.status = "Approved"
                /\ t.volunteer_id = vid
                /\ \E p \in ps : p.id = t.project_id}

(***************************************************************************)
(* render_statistics: the figures shown to a volunteer                     *)
(***************************************************************************)
TrendLimit == 30

\* the rows of one volunteer, and those with status 'Approved'
EntriesOf(ts, vid) == {t \in ts : t.volunteer_id = vid}

\* the approved entries of every volunteer
ApprovedOf_AnyVolunteer(ts, vid) == {t \in ts : t.status = "Approved"}

ApprovedOf(ts, vid) == {t \in ts : t.status = "Approved" /\ t.volunteer_id = vid}

\* ORDER BY key DESC LIMIT n over the keys of a grouped result
LatestKeys(keys, n) == {k \in keys : Cardinality({j \in keys : j > k}) < n}

\* SUM(hours) GROUP BY p.name over the approved rows joined to projects
ProjectTotals(ts, ps, vid) ==
    LET rows  == {t \in ApprovedOf(ts, vid) : \E p \in ps : p.id = t.project_id}
        names == {ProjectNameOf(ps, t.project_id) : t \in rows}
    IN {<<n, SumHours({t \in rows : ProjectNameOf(ps, t.project_id) = n})>> : n \in names}

\* "Daily trend": SUM(hours) GROUP BY date of the volunteer's rows, the
\* query has no condition on status; the latest 30 dates
DailyHours(ts, vid) ==
    LET rows  == EntriesOf(ts, vid)
        dates == LatestKeys({t.date : t \in rows}, TrendLimit)
    IN {<<d, SumHours({t \in rows : t.date = d})>> : d \in dates}

\* DATE_TRUNC('week', date): the Monday of the date's week
DateTruncWeek(d) == d - Weekday(d)

\* "Weekly trend": SUM(hours) GROUP BY week of the approved rows, the latest 30 weeks
WeeklyHours(ts, vid) ==
    LET rows  == ApprovedOf(ts, vid)
        weeks == LatestKeys({DateTruncWeek(t.date) : t \in rows}, TrendLimit)
    IN {<<w, SumHours({t \in rows : DateTruncWeek(t.date) = w})>> : w \in weeks}

\* the date range without the floor at 1
NumWeeks_NoFloor(ts, vid) ==
    LET dates == {t.date : t \in EntriesOf(ts, vid)}
        min_date == CHOOSE d \in dates : \A e \in dates : d <= e
        max_date == CHOOSE d \in dates : \A e \in dates : d >= e
    IN IF dates # {} THEN (max_date - min_date) \div 7 ELSE 1

\* "Number of Weeks Active": MIN(date), MAX(date) of the volunteer's rows,
\* max((max_date - min_date).days // 7, 1), and 1 when there is no row
NumWeeks(ts, vid) ==
    LET dates == {t.date : t \in EntriesOf(ts, vid)}
        min_date == CHOOSE d \in dates : \A e \in dates : d <= e
        max_date == CHOOSE d \in dates : \A e \in dates : d >= e
        weeks == (max_date - min_date) \div 7
    IN IF dates # {} THEN (IF weeks > 1 THEN weeks ELSE 1) ELSE 1

\* render_statistics(username): the hours figures put on the page
render_statistics(ts, ps, vid) ==
    [total_hours    |-> ApprovedTotal(ts, vid),
     num_weeks      |-> NumWeeks(ts, vid),
     project_totals |-> ProjectTotals(ts, ps, vid),
     daily_hours    |-> DailyHours(ts, vid),
     weekly_hours   |-> WeeklyHours(ts, vid)]

(***************************************************************************)
(* What the volunteer can type into the grid                               *)
(***************************************************************************)
\* a row with one edited hours cell
RowOf(project, col, h) ==
    [Project |-> project, Hours |-> [i \in 1..WeekLen |-> IF i = col THEN h ELSE <<0>>]]

\* the grid shown with columns `cols`, its first rows replaced by `rows`
GridOf(cols, rows) ==
    [columns |-> cols,
     rows    |-> [r \in 1..GridRows |-> IF r <= Len(rows) THEN rows[r] ELSE BlankRow]]

\* all sequences of length n: first element from F, the others from O
RECURSIVE RowSeqs(_, _, _)
RowSeqs(n, F, O) ==
    IF n = 0 THEN {<<>>}
    ELSE IF n = 1 THEN {<<f>> : f \in F}
    ELSE {Append(s, o) : s \in RowSeqs(n - 1, F, O), o \in O}

\* first rows of the single-call specification: every day column, and the
\* values that are dropped (0, negative, NaN) or refused by the table (0.004)
FirstRowInputs ==
    {RowOf("Food Bank", c, <<2500>>) : c \in 1..WeekLen}
    \cup {RowOf("Garden", c, <<2500>>) : c \in {2, WeekLen}}
    \cup {RowOf("Food Bank", 2, h) : h \in {<<1005>>, <<4>>, <<-1000>>, NaN, <<0>>}}
    \cup {RowOf(n, 2, h) : n \in {"", PyNone}, h \in {<<2500>>, <<0>>}}

OtherRowInputs ==
    {RowOf("Food Bank", 2, <<1005>>), RowOf("Food Bank", 2, <<4>>),
     RowOf("Garden", 7, <<2500>>), RowOf("", 2, <<2500>>),
     RowOf(PyNone, 2, <<2500>>), BlankRow}

RichGrids(cols) ==
    {GridOf(cols, rows) : rows \in RowSeqs(EditRows, FirstRowInputs, OtherRowInputs)}

\* grids of the session specification: nothing typed, one project on one
\* day, and the same project in a second slot of the same day
MainRows ==
    {<<>>,
     <<RowOf("Food Bank", 2, <<2500>>)>>,
     <<RowOf("Food Bank", 2, <<1005>>), RowOf("Food Bank", 2, <<2500>>)>>}

MainGrids(cols) == {GridOf(cols, rows) : rows \in MainRows}

(***************************************************************************)
(* Accounts                                                                *)
(***************************************************************************)
\* the e-mail addresses of the registered volunteers and admins; one person
\* is both, and one address typed into the forms is nobody's
VolunteerEmails == {"vol@example.org", "both@example.org"}
AdminEmails == {"admin@example.org", "both@example.org"}
Emails == VolunteerEmails \cup AdminEmails \cup {"nobody@example.org"}

\* stauth.Hasher.hash(password)
Hash(password) == <<"bcrypt", password>>

Passwords == {"old", "new"}

\* the accounts as registration left them; no token was ever issued
InitAccounts ==
    /\ volunteers = [e \in VolunteerEmails |-> Hash("old")]
    /\ admins = [e \in AdminEmails |-> Hash("old")]
    /\ password_reset_tokens = {}
    /\ outbox = {}
    /\ tokens_issued = 0
    /\ retired = {}

(***************************************************************************)
(* State machine                                                           *)
(***************************************************************************)
NoDf == <<>>

\* no call is running step by step
NoCalls == <<>>

\* what save_to_database puts on the page: st.error or st.info before its
\* early returns and in its except branch
SaveMessages(outcome) ==
    IF outcome = "no_user" THEN <<"User ID not found. Please log in again.">>
    ELSE IF outcome = "no_hours" THEN <<"No hours to save.">>
    ELSE IF outcome = "error" THEN <<"Error saving timesheet">>
    ELSE <<>>

\* what a click on Save or Submit puts on the page: the messages of
\* save_to_database, then the st.success of the button
ButtonMessages(op, outcome) ==
    IF op = "save" THEN SaveMessages(outcome) \o <<"Timesheet saved successfully!">>
    ELSE IF op = "submit" THEN SaveMessages(outcome) \o <<"Timesheet submitted successfully!">>
    ELSE <<>>

Report(op, outcome, df, status, arg, written, partial, nth) ==
    [op |-> op, outcome |-> outcome, df |-> df, status |-> status, arg |-> arg,
     written |-> written, partial |-> partial, nth |-> nth,
     messages |-> ButtonMessages(op, outcome)]

\* VolunteerTimesheet.__init__ on a fresh session: current_week is now() minus
\* now().weekday() days, the two now() calls being on the same day or on both
\* sides of midnight; nobody is logged in, so the grid is the blank template
FirstWeek(now1, now2) == now1 - Weekday(now2)

InitSession(week) ==
    /\ authentication_status = FALSE
    /\ volunteer_id = NoVolunteer
    /\ current_week = week
    /\ timesheet_df = create_timesheet_dataframe({}, {}, FALSE, NoVolunteer, week)

\* initialize_database(): empty tables and the default projects
Init ==
    /\ projects = {[id |-> 1, name |-> "Food Bank"]}
    /\ timesheets = {}
    /\ project_id_seq = 2
    /\ timesheet_id_seq = 1
    /\ \E now2 \in {Today, Today + 1} : InitSession(FirstWeek(Today, now2))
    /\ result = Report("init", "", NoDf, "", 0, {}, 0, 0)
    /\ in_flight = NoCalls
    /\ InitAccounts
    /\ used_connections = 0

\* login (form or cookie restore) followed by render(), which looks the
\* volunteer's id up and stores it in the session
Login(v) ==
    /\ authentication_status = FALSE
    /\ authentication_status' = TRUE
    /\ volunteer_id' = v
    /\ result' = Report("login", "", NoDf, "", v, {}, 0, 0)
    /\ UNCHANGED <<projects, timesheets, project_id_seq, timesheet_id_seq,
                   current_week, timesheet_df, in_flight, account_vars>>
    /\ used_connections' = 0

WithinShift(week) ==
    /\ week >= Today - (WeekLen - 1)
    /\ week <= Today + WeekLen * MaxWeekShift

\* render(): the Prev / Next buttons move current_week by one week and reload the grid
ShiftWeek(delta, op) ==
    /\ authentication_status
    /\ WithinShift(current_week + delta)
    /\ current_week' = current_week + delta
    /\ timesheet_df' = create_timesheet_dataframe(timesheets, projects,
                           authentication_status, volunteer_id, current_week + delta)
    /\ result' = Report(op, "", NoDf, "", 0, {}, 0, 0)
    /\ UNCHANGED <<projects, timesheets, project_id_seq, timesheet_id_seq,
                   authentication_status, volunteer_id, in_flight, account_vars>>
    /\ used_connections' = 0

PrevWeek == ShiftWeek(0 - WeekLen, "prev")

NextWeek == ShiftWeek(WeekLen, "next")

\* number of times in a row the same grid was saved with the same status
Repeat(op, df) ==
    IF result.op = op /\ result.df = df THEN (IF result.nth >= 2 THEN 2 ELSE result.nth + 1)
    ELSE 1

\* the effect of save_to_database(edited_df, status) on the tables
SaveEffect(op, df, status) ==
    LET r == save_to_database(df, status, projects, timesheets, project_id_seq,
                              timesheet_id_seq, volunteer_id, current_week)
    IN /\ projects' = r.db.projects
       /\ timesheets' = r.db.timesheets
       /\ project_id_seq' = r.db.pseq
       /\ timesheet_id_seq' = r.db.tseq
       /\ result' = Report(op, r.outcome, df, status, 0, r.db.written, r.partial,
                           Repeat(op, df))

\* render_time_entry(): the Save button stores the edited grid in the session
\* and saves it with status "Saved"
ClickSave(df) ==
    /\ authentication_status
    /\ df.columns = timesheet_df.columns
    /\ timesheet_df' = df
    /\ SaveEffect("save", df, "Saved")
    /\ UNCHANGED <<authentication_status, volunteer_id, current_week, in_flight, account_vars>>
    /\ used_connections' = 0

\* render_time_entry(): the Submit button saves the edited grid with status "Pending"
ClickSubmit(df) ==
    /\ authentication_status
    /\ df.columns = timesheet_df.columns
    /\ SaveEffect("submit", df, "Pending")
    /\ UNCHANGED <<authentication_status, volunteer_id, current_week, timesheet_df,
                   in_flight, account_vars>>
    /\ used_connections' = 0

\* render_pending_hours(): the Approve button of a listed pending row
ClickApprove ==
    \E t \in get_pending_timesheets(timesheets, projects) :
        /\ timesheets' = approve_timesheet(timesheets, t.id)
        /\ result' = Report("approve", "ok", NoDf, "", t.id, {t.id}, 0, 0)
        /\ UNCHANGED <<projects, project_id_seq, timesheet_id_seq,
                       authentication_status, volunteer_id, current_week, timesheet_df,
                       in_flight, account_vars, used_connections>>

\* render_project_management(): Delete Project on a name of the select box
ClickDeleteProject(name) ==
    /\ \E p \in projects : p.name = name
    /\ LET r == delete_project(timesheets, projects, name)
       IN /\ projects' = r.projects
          /\ timesheets' = r.timesheets
          /\ result' = Report("delete", IF r.ok THEN "ok" ELSE r.message, NoDf, "",
                              name, {}, 0, 0)
    /\ UNCHANGED <<project_id_seq, timesheet_id_seq,
                   authentication_status, volunteer_id, current_week, timesheet_df,
                   in_flight, account_vars, used_connections>>

\* the session specification: any volunteer logs in, edits and saves small
\* grids, submits the grid of the session, moves between weeks; the admin
\* approves and deletes
LoginAny == \E v \in Volunteers : Login(v)

SaveAny ==
    \E df \in MainGrids(timesheet_df.columns) :
        ClickSave(df) /\ timesheet_id_seq' <= MaxTimesheetRows + 1

SubmitShown == ClickSubmit(timesheet_df) /\ timesheet_id_seq' <= MaxTimesheetRows + 1

DeleteAny == \E name \in Names : ClickDeleteProject(name)

Next ==
    \/ LoginAny
    \/ PrevWeek
    \/ NextWeek
    \/ SaveAny
    \/ SubmitShown
    \/ ClickApprove
    \/ DeleteAny

Spec == Init /\ [][Next]_vars

(***************************************************************************)
(* Single-call specification: a database left by earlier sessions, a       *)
(* logged-in volunteer on the week of Today, one Save or Submit of a grid  *)
(* and the same click once more                                            *)
(***************************************************************************)
ThisWeek == FirstWeek(Today, Today)

\* rows earlier sessions may have left: an approved and a pending entry of
\* volunteer 1 in the week, and an entry of volunteer 2
EarlierEntries ==
    {[id |-> 1, volunteer_id |-> 1, project_id |-> 1, date |-> ThisWeek + 1,
      hours |-> 300, status |-> "Approved"],
     [id |-> 2, volunteer_id |-> 1, project_id |-> 2, date |-> ThisWeek + 6,
      hours |-> 150, status |-> "Pending"],
     [id |-> 3, volunteer_id |-> 2, project_id |-> 1, date |-> ThisWeek + 1,
      hours |-> 200, status |-> "Saved"]}

EarlierProjects == {[id |-> 1, name |-> "Food Bank"], [id |-> 2, name |-> "Garden"]}

\* the projects the rows of ts refer to
ReferencedProjects(ts) == {p \in EarlierProjects : \E t \in ts : t.project_id = p.id}

InitSave ==
    /\ timesheets \in {S \in SUBSET EarlierEntries :
                          (\E t \in S : t.id = 2) => (\E t \in S : t.id = 1)}
    /\ projects = ReferencedProjects(timesheets)
    /\ project_id_seq = 3
    /\ timesheet_id_seq = 4
    /\ authentication_status = TRUE
    /\ volunteer_id = 1
    /\ current_week = ThisWeek
    /\ timesheet_df = create_timesheet_dataframe(timesheets, projects, TRUE, 1, ThisWeek)
    /\ result = Report("init", "", NoDf, "", 0, {}, 0, 0)
    /\ in_flight = NoCalls
    /\ InitAccounts
    /\ used_connections = 0

SaveOnce ==
    /\ result.op = "init"
    /\ \E df \in RichGrids(timesheet_df.columns) : ClickSave(df)

SubmitOnce ==
    /\ result.op = "init"
    /\ \E df \in RichGrids(timesheet_df.columns) : ClickSubmit(df)

SaveAgain ==
    /\ result.op = "save"
    /\ result.nth = 1
    /\ ClickSave(result.df)

SubmitAgain ==
    /\ result.op = "submit"
    /\ result.nth = 1
    /\ ClickSubmit(result.df)

NextSave == SaveOnce \/ SubmitOnce \/ SaveAgain \/ SubmitAgain

SaveSpec == InitSave /\ [][NextSave]_vars

(***************************************************************************)
(* View specification: a database left by earlier sessions with up to six  *)
(* projects in the week and entries before and after it; a logged-in       *)
(* volunteer moves between the weeks, each move reloading the grid         *)
(***************************************************************************)
ViewProjects ==
    EarlierProjects \cup
    {[id |-> 3, name |-> "Local Library"], [id |-> 4, name |-> "Animal Shelter"],
     [id |-> 5, name |-> "Homeless Shelter"], [id |-> 6, name |-> "Community Garden"]}

Entry(id, v, p, d, h, st) ==
    [id |-> id, volunteer_id |-> v, project_id |-> p, date |-> d, hours |-> h, status |-> st]

\* entries of volunteer 1 in the week of Today: one per project, on the
\* first and on the last day among them, and a second day of project 1
ViewWeekEntries ==
    {Entry(1, 1, 1, ThisWeek, 250, "Approved"),
     Entry(2, 1, 2, ThisWeek + 6, 150, "Pending"),
     Entry(3, 1, 3, ThisWeek + 1, 101, "Saved"),
     Entry(4, 1, 4, ThisWeek + 2, 400, "Approved"),
     Entry(5, 1, 5, ThisWeek + 3, 50, "Approved"),
     Entry(6, 1, 6, ThisWeek + 4, 800, "Pending"),
     Entry(7, 1, 1, ThisWeek + 3, 100, "Saved")}

\* entries outside that week or of the other volunteer
ViewOtherEntries ==
    {Entry(8, 1, 1, ThisWeek - 1, 300, "Approved"),
     Entry(9, 1, 3, ThisWeek + WeekLen, 200, "Approved"),
     Entry(10, 1, 2, ThisWeek + 2 * WeekLen + 1, 600, "Saved"),
     Entry(11, 2, 2, ThisWeek + 6, 700, "Approved")}

InitView ==
    /\ timesheets \in SUBSET (ViewWeekEntries \cup ViewOtherEntries)
    /\ projects = ViewProjects
    /\ project_id_seq = 7
    /\ timesheet_id_seq = 12
    /\ authentication_status = TRUE
    /\ volunteer_id \in Volunteers
    /\ current_week = ThisWeek
    /\ timesheet_df = create_timesheet_dataframe(timesheets, projects, TRUE,
                                                  volunteer_id, ThisWeek)
    /\ result = Report("init", "", NoDf, "", 0, {}, 0, 0)
    /\ in_flight = NoCalls
    /\ InitAccounts
    /\ used_connections = 0

\* the statistics page of the logged-in volunteer is rendered
ViewStatistics ==
    /\ authentication_status
    /\ result' = Report("stats", "", NoDf, "",
                        render_statistics(timesheets, projects, volunteer_id), {}, 0, 0)
    /\ UNCHANGED <<projects, timesheets, project_id_seq, timesheet_id_seq,
                   authentication_status, volunteer_id, current_week, timesheet_df,
                   in_flight, account_vars>>
    /\ used_connections' = 0

NextView == PrevWeek \/ NextWeek \/ ViewStatistics

ViewSpec == InitView /\ [][NextView]_vars

(***************************************************************************)
(* Returning-volunteer specification: a browser session is opened on a     *)
(* database that earlier sessions have filled; the volunteer logs in,      *)
(* moves between weeks, saves and submits                                  *)
(***************************************************************************)
\* rows of earlier sessions: those of the single-call specification and an
\* entry of volunteer 1 in the week after
ReturnEntries ==
    EarlierEntries \cup {Entry(4, 1, 1, ThisWeek + WeekLen + 1, 400, "Saved")}

ReturnSeq == 5               \* next value of timesheets_id_seq after those rows

InitReturn ==
    /\ timesheets \in SUBSET ReturnEntries
    /\ projects = EarlierProjects
    /\ project_id_seq = 3
    /\ timesheet_id_seq = ReturnSeq
    /\ InitSession(ThisWeek)
    /\ result = Report("init", "", NoDf, "", 0, {}, 0, 0)
    /\ in_flight = NoCalls
    /\ InitAccounts
    /\ used_connections = 0

ReturnSave ==
    \E df \in MainGrids(timesheet_df.columns) :
        ClickSave(df) /\ timesheet_id_seq' < ReturnSeq + MaxTimesheetRows

ReturnSubmit ==
    ClickSubmit(timesheet_df) /\ timesheet_id_seq' < ReturnSeq + MaxTimesheetRows

NextReturn == LoginAny \/ PrevWeek \/ NextWeek \/ ReturnSave \/ ReturnSubmit

ReturnSpec == InitReturn /\ [][NextReturn]_vars

(***************************************************************************)
(* Step-by-step execution.  Every browser session and the admin dashboard  *)
(* have their own connection; PostgreSQL runs the statements of a          *)
(* connection at READ COMMITTED: a statement sees what is committed and    *)
(* what its own transaction wrote, an UPDATE or DELETE of a row waits for  *)
(* the transaction that has written the row, and a DELETE of a project     *)
(* waits for the transaction that has inserted a row referring to it.      *)
(***************************************************************************)
Sessions == {"s1", "s2"}     \* two browser sessions of the same volunteer

NoEntry == 0                 \* fetchone() returned None

\* the grid each session has edited: the same cell with different hours
RaceGrid(s) ==
    GridOf(DayColumns(ThisWeek),
           <<RowOf("Food Bank", 2, IF s = "s1" THEN <<2500>> ELSE <<1005>>)>>)

IdleSession(s) ==
    [pc |-> "idle", df |-> RaceGrid(s), status |-> "", cells |-> <<>>,
     project_id |-> 0, entry_id |-> NoEntry,
     new_projects |-> {}, new_entries |-> {}, updates |-> {}, outcome |-> ""]

\* what the statements of session s see of the two tables
SeenProjects(s) == projects \cup in_flight[s].new_projects

SeenEntries(s) ==
    {IF \E w \in in_flight[s].updates : w.id = t.id
     THEN LET mine == CHOOSE w \in in_flight[s].updates : w.id = t.id
          IN [t EXCEPT !.hours = mine.hours, !.status = mine.status]
     ELSE t : t \in timesheets} \cup in_flight[s].new_entries

\* the rows of timesheets another session has written and not yet committed
LockedByOthers(s) ==
    {w.id : w \in UNION {in_flight[o].updates : o \in Sessions \ {s}}}

SessionStep(s, x) ==
    /\ in_flight' = [in_flight EXCEPT ![s] = x]
    /\ UNCHANGED <<authentication_status, volunteer_id, current_week, timesheet_df,
                   account_vars, used_connections>>

\* the Save or Submit button: save_to_database up to "conn.autocommit = False"
StartSave(s) ==
    /\ in_flight[s].pc = "idle"
    /\ \E status \in {"Saved", "Pending"} :
          LET cells == FilterCells(in_flight[s].df)
          IN SessionStep(s, [in_flight[s] EXCEPT
                 !.status = status, !.cells = cells,
                 !.pc = IF cells = <<>> THEN "done" ELSE "select_project",
                 !.outcome = IF cells = <<>> THEN "no_hours" ELSE ""])
    /\ UNCHANGED <<projects, timesheets, project_id_seq, timesheet_id_seq, result>>

\* SELECT id FROM projects WHERE name = ..
SelectProject(s) ==
    /\ in_flight[s].pc = "select_project"
    /\ LET name  == Head(in_flight[s].cells).Project
           found == {p \in SeenProjects(s) : name # PyNone /\ p.name = name}
       IN SessionStep(s, IF found = {}
                         THEN [in_flight[s] EXCEPT !.pc = "insert_project"]
                         ELSE [in_flight[s] EXCEPT
                                  !.project_id = (CHOOSE p \in found : TRUE).id,
                                  !.pc = "select_entry"])
    /\ UNCHANGED <<projects, timesheets, project_id_seq, timesheet_id_seq, result>>

\* INSERT INTO projects (name): waits for another transaction that has
\* inserted the name; fails on NOT NULL and on UNIQUE (name)
InsertProject(s) ==
    /\ in_flight[s].pc = "insert_project"
    /\ LET name == Head(in_flight[s].cells).Project
       IN /\ \A o \in Sessions \ {s} :
                \A p \in in_flight[o].new_projects : p.name # name
          /\ SessionStep(s,
                IF name = PyNone \/ \E p \in projects : p.name = name
                THEN [in_flight[s] EXCEPT !.pc = "rollback"]
                ELSE [in_flight[s] EXCEPT
                         !.new_projects = @ \cup {[id |-> project_id_seq, name |-> name]},
                         !.project_id = project_id_seq,
                         !.pc = "select_entry"])
    /\ project_id_seq' = project_id_seq + 1
    /\ UNCHANGED <<projects, timesheets, timesheet_id_seq, result>>

\* SELECT id FROM timesheets WHERE volunteer_id = .. AND project_id = .. AND date = ..
SelectEntry(s) ==
    /\ in_flight[s].pc = "select_entry"
    /\ LET dates == MapDayDate(current_week, Head(in_flight[s].cells).DayDate)
           exist == ExistingEntries(SeenEntries(s), volunteer_id,
                                    in_flight[s].project_id, CHOOSE d \in dates : TRUE)
       IN SessionStep(s,
             IF dates = {}
             THEN [in_flight[s] EXCEPT !.pc = "rollback"]
             ELSE [in_flight[s] EXCEPT
                      !.entry_id = IF exist = {} THEN NoEntry
                                   ELSE (CHOOSE t \in exist : \A u \in exist : t.id <= u.id).id,
                      !.pc = "write_entry"])
    /\ UNCHANGED <<projects, timesheets, project_id_seq, timesheet_id_seq, result>>

\* the position after a cell is written: the next cell or the commit
AfterCell(x) ==
    [x EXCEPT !.cells = Tail(@),
              !.pc = IF Tail(x.cells) = <<>> THEN "commit" ELSE "select_project"]

\* UPDATE timesheets SET hours, status WHERE id = ..: waits while another
\* transaction has written the row
UpdateFound(s) ==
    /\ in_flight[s].pc = "write_entry"
    /\ in_flight[s].entry_id # NoEntry
    /\ in_flight[s].entry_id \notin LockedByOthers(s)
    /\ LET x     == in_flight[s]
           hours == ToNumeric(Head(x.cells).Hours[1])
           there == \E t \in SeenEntries(s) : t.id = x.entry_id
           mine  == {t \in x.new_entries : t.id = x.entry_id}
       IN SessionStep(s,
             IF NumericOverflow(hours) \/ (there /\ ~(hours > 0))
             THEN [x EXCEPT !.pc = "rollback"]
             ELSE IF ~there THEN AfterCell(x)
             ELSE IF mine # {}
             THEN AfterCell([x EXCEPT !.new_entries =
                                UpdateEntry(@, x.entry_id, hours, x.status)])
             ELSE AfterCell([x EXCEPT !.updates =
                                {w \in @ : w.id # x.entry_id} \cup
                                {[id |-> x.entry_id, hours |-> hours, status |-> x.status]}]))
    /\ UNCHANGED <<projects, timesheets, project_id_seq, timesheet_id_seq, result>>

\* INSERT INTO timesheets: the id is taken from the sequence, then the row is
\* checked (DECIMAL(5,2), CHECK (hours > 0), the project must exist)
InsertEntry(s) ==
    /\ in_flight[s].pc = "write_entry"
    /\ in_flight[s].entry_id = NoEntry
    /\ LET x     == in_flight[s]
           hours == ToNumeric(Head(x.cells).Hours[1])
       IN SessionStep(s,
             IF \/ NumericOverflow(hours) \/ ~(hours > 0)
                \/ \A p \in SeenProjects(s) : p.id # x.project_id
             THEN [x EXCEPT !.pc = "rollback"]
             ELSE AfterCell([x EXCEPT !.new_entries = @ \cup
                                {[id |-> timesheet_id_seq, volunteer_id |-> volunteer_id,
                                  project_id |-> x.project_id,
                                  date |-> CHOOSE d \in MapDayDate(current_week,
                                                       Head(x.cells).DayDate) : TRUE,
                                  hours |-> hours, status |-> x.status]}]))
    /\ timesheet_id_seq' = timesheet_id_seq + 1
    /\ UNCHANGED <<projects, timesheets, project_id_seq, result>>

\* conn.commit(): what the transaction wrote becomes visible to everybody
CommitSave(s) ==
    /\ in_flight[s].pc = "commit"
    /\ timesheets' = SeenEntries(s)
    /\ projects' = SeenProjects(s)
    /\ result' = Report(IF in_flight[s].status = "Saved" THEN "save" ELSE "submit",
                        "committed", in_flight[s].df, in_flight[s].status, s,
                        {w.id : w \in in_flight[s].updates \cup in_flight[s].new_entries},
                        0, 0)
    /\ SessionStep(s, [in_flight[s] EXCEPT
           !.pc = "done", !.outcome = "committed",
           !.new_projects = {}, !.new_entries = {}, !.updates = {}])
    /\ UNCHANGED <<project_id_seq, timesheet_id_seq>>

\* the except branch: conn.rollback()
RollbackSave(s) ==
    /\ in_flight[s].pc = "rollback"
    /\ result' = Report(IF in_flight[s].status = "Saved" THEN "save" ELSE "submit",
                        "error", in_flight[s].df, in_flight[s].status, s, {}, 0, 0)
    /\ SessionStep(s, [in_flight[s] EXCEPT
           !.pc = "done", !.outcome = "error",
           !.new_projects = {}, !.new_entries = {}, !.updates = {}])
    /\ UNCHANGED <<projects, timesheets, project_id_seq, timesheet_id_seq>>

IdleAdmin == [pc |-> "idle", name |-> "", pending |-> {}]

AdminStep(x) ==
    /\ in_flight' = [in_flight EXCEPT !["admin"] = x]
    /\ UNCHANGED <<project_id_seq, timesheet_id_seq,
                   authentication_status, volunteer_id, current_week, timesheet_df,
                   account_vars, used_connections>>

\* delete_project(name) up to the check of COUNT(*): refused when a
\* committed row refers to the project
DeleteCount(name) ==
    /\ in_flight["admin"].pc = "idle"
    /\ \E p \in projects : p.name = name
    /\ IF ProjectUseCount(timesheets, projects, name) > 0
       THEN /\ AdminStep(in_flight["admin"])
            /\ result' = Report("delete", "Cannot delete project", NoDf, "", name, {}, 0, 0)
       ELSE /\ AdminStep([in_flight["admin"] EXCEPT !.pc = "counted", !.name = name])
            /\ UNCHANGED result
    /\ UNCHANGED <<projects, timesheets>>

\* DELETE FROM projects WHERE name = .. with ON DELETE CASCADE
DeleteRows(ts, ps, name) ==
    LET gone == {p.id : p \in {q \in ps : q.name = name}}
    IN [projects   |-> {p \in ps : p.name # name},
        timesheets |-> {t \in ts : t.project_id \notin gone}]

\* the DELETE of delete_project and its commit: waits for the transactions
\* that have inserted or updated a row referring to the project
DeleteRun ==
    /\ in_flight["admin"].pc = "counted"
    /\ LET name == in_flight["admin"].name
           gone == {p.id : p \in {q \in projects : q.name = name}}
           held == {t.id : t \in {u \in timesheets : u.project_id \in gone}}
       IN /\ \A s \in Sessions :
                /\ \A t \in in_flight[s].new_entries : t.project_id \notin gone
                /\ \A w \in in_flight[s].updates : w.id \notin held
          /\ projects' = DeleteRows(timesheets, projects, name).projects
          /\ timesheets' = DeleteRows(timesheets, projects, name).timesheets
          /\ result' = Report("delete", "ok", NoDf, "", name, {}, 0, 0)
    /\ AdminStep(IdleAdmin)

\* render_pending_hours(): the list of get_pending_timesheets() is fetched
FetchPending ==
    /\ in_flight["admin"].pc = "idle"
    /\ get_pending_timesheets(timesheets, projects) # {}
    /\ AdminStep([in_flight["admin"] EXCEPT
           !.pc = "listed",
           !.pending = {t.id : t \in get_pending_timesheets(timesheets, projects)}])
    /\ UNCHANGED <<projects, timesheets, result>>

\* approve_timesheet(id) for a row of the fetched list, and its commit:
\* waits for a transaction that has written the row
ApproveListed ==
    /\ in_flight["admin"].pc = "listed"
    /\ \E id \in in_flight["admin"].pending :
          /\ \A s \in Sessions : \A w \in in_flight[s].updates : w.id # id
          /\ timesheets' = approve_timesheet(timesheets, id)
          /\ result' = Report("approve", "ok", NoDf, "", id, {id}, 0, 0)
    /\ AdminStep(IdleAdmin)
    /\ UNCHANGED projects

\* a database in which the cell of the two sessions has no row yet, or a
\* Saved or a Pending one; the project may have been deleted after the
\* sessions rendered their select box
InitRace ==
    /\ projects \in {{[id |-> 1, name |-> "Food Bank"]}, {}}
    /\ timesheets \in {{}} \cup
           {{Entry(1, 1, 1, ThisWeek + 1, 300, st)} : st \in {"Saved", "Pending"}}
    /\ (timesheets # {} => projects # {})
    /\ project_id_seq = 2
    /\ timesheet_id_seq = 2
    /\ authentication_status = TRUE
    /\ volunteer_id = 1
    /\ current_week = ThisWeek
    /\ timesheet_df = create_timesheet_dataframe(timesheets, projects, TRUE, 1, ThisWeek)
    /\ result = Report("init", "", NoDf, "", 0, {}, 0, 0)
    /\ in_flight = [p \in Sessions \cup {"admin"} |->
                       IF p = "admin" THEN IdleAdmin ELSE IdleSession(p)]
    /\ InitAccounts
    /\ used_connections = 0

SaveSteps ==
    \E s \in Sessions :
        \/ StartSave(s)
        \/ SelectProject(s)
        \/ InsertProject(s)
        \/ SelectEntry(s)
        \/ UpdateFound(s)
        \/ InsertEntry(s)
        \/ CommitSave(s)
        \/ RollbackSave(s)

DeleteSteps == (\E name \in Names : DeleteCount(name)) \/ DeleteRun

ApproveSteps == FetchPending \/ ApproveListed

\* two sessions of one volunteer save the same cell at the same time
SaveRaceSpec == InitRace /\ [][SaveSteps]_vars

\* the same with the admin deleting the project and approving meanwhile
NextAdminRace == SaveSteps \/ DeleteSteps \/ ApproveSteps

AdminRaceSpec == InitRace /\ [][NextAdminRace]_vars

(***************************************************************************)
(* Connection-pool specification: the session of a volunteer on a database *)
(* without entries; the connection may be lost while a save is writing,    *)
(* and a project name of the grid may be a single space                    *)
(***************************************************************************)
\* save_to_database when the server closes the connection during the loop:
\* cursor.execute raises, conn.rollback() in the except branch raises on the
\* closed connection, and in the finally block conn.autocommit = True raises
\* before release_connection(conn) is reached; the exception leaves the
\* script run, so the button shows no message, and the server has dropped
\* the transaction
ConnectionLost(df) == FilterCells(df) # <<>>

ClickSaveConnectionLost(op, df) ==
    /\ authentication_status
    /\ df.columns = timesheet_df.columns
    /\ ConnectionLost(df)
    /\ timesheet_df' = IF op = "save" THEN df ELSE timesheet_df
    /\ used_connections' = 1
    /\ result' = Report("connection lost", "", df, "", op, {}, 0, 0)
    /\ UNCHANGED <<projects, timesheets, project_id_seq, timesheet_id_seq,
                   authentication_status, volunteer_id, current_week, in_flight,
                   account_vars>>

InitPool ==
    /\ timesheets = {}
    /\ InitReturn

\* the grids of the session specification, and a row whose project name is
\* one space
PoolGrids(cols) ==
    MainGrids(cols) \cup {GridOf(cols, <<RowOf(" ", 2, <<2500>>)>>)}

PoolSave ==
    \E df \in PoolGrids(timesheet_df.columns) :
        ClickSave(df) /\ timesheet_id_seq' < ReturnSeq + MaxTimesheetRows

SaveLost ==
    \E df \in PoolGrids(timesheet_df.columns) : ClickSaveConnectionLost("save", df)

SubmitLost == ClickSaveConnectionLost("submit", timesheet_df)

NextPool ==
    \/ LoginAny
    \/ PrevWeek
    \/ NextWeek
    \/ PoolSave
    \/ ReturnSubmit
    \/ ViewStatistics
    \/ SaveLost
    \/ SubmitLost

PoolSpec == InitPool /\ [][NextPool]_vars

(***************************************************************************)
(* Password reset in the volunteer app and in the admin dashboard, which   *)
(* share the table password_reset_tokens                                   *)
(***************************************************************************)
Apps == {"volunteer", "admin"}

\* the n-th value of secrets.token_urlsafe(32); no two draws are equal
Token(n) == <<n>>

NoToken == <<>>              \* create_reset_token returned None

\* the table an app looks the e-mail up in and updates the password of
AccountsOf(app, vols, adms) == IF app = "volunteer" THEN vols ELSE adms

\* create_reset_token(email): INSERT ... ON CONFLICT (email) DO UPDATE.
\* password_reset_tokens.email REFERENCES volunteers(email): for any other
\* e-mail the INSERT fails, the except branch rolls back and the function
\* falls off its end, returning None
create_reset_token(tokens, vols, email, token) ==
    IF email \in DOMAIN vols
    THEN [tokens |-> {r \in tokens : r.email # email}
                        \cup {[email |-> email, token |-> token, expired |-> FALSE]},
          token |-> token]
    ELSE [tokens |-> tokens, token |-> NoToken]

\* send_reset_email(email) of app; mail_ok: yag.send did not raise
send_reset_email(app, tokens, vols, adms, email, token, mail_ok) ==
    LET c == create_reset_token(tokens, vols, email, token)
    IN IF email \notin DOMAIN AccountsOf(app, vols, adms)
       THEN [tokens |-> tokens, drawn |-> 0, mail |-> {}, ok |-> FALSE,
             token |-> NoToken, message |-> "Email not found in our records."]
       ELSE IF mail_ok
       THEN [tokens |-> c.tokens, drawn |-> 1,
             mail |-> {[to |-> email, token |-> c.token]}, ok |-> TRUE,
             token |-> c.token, message |-> "Reset link sent."]
       ELSE [tokens |-> c.tokens, drawn |-> 1, mail |-> {}, ok |-> FALSE,
             token |-> c.token, message |-> "Error sending email"]

\* reset_password without the DELETE of the used token
reset_password_KeepToken(app, tokens, vols, adms, token, new_password) ==
    LET found == {r \in tokens : r.token = token /\ ~r.expired}
        email == (CHOOSE r \in found : TRUE).email
        old   == AccountsOf(app, vols, adms)
        new   == [e \in DOMAIN old |-> IF e = email THEN Hash(new_password) ELSE old[e]]
    IN IF found = {}
       THEN [tokens |-> tokens, volunteers |-> vols, admins |-> adms, ok |-> FALSE,
             message |-> "Invalid or expired token."]
       ELSE [tokens |-> tokens,
             volunteers |-> IF app = "volunteer" THEN new ELSE vols,
             admins |-> IF app = "admin" THEN new ELSE adms,
             ok |-> TRUE, message |-> "Password successfully reset."]

\* reset_password(token, new_password) of app: SELECT email ... WHERE token =
\* .. AND expires_at > NOW(); UPDATE volunteers (admins in the dashboard) SET
\* password_hash WHERE email; DELETE FROM password_reset_tokens WHERE email
reset_password(app, tokens, vols, adms, token, new_password) ==
    LET found == {r \in tokens : r.token = token /\ ~r.expired}
        email == (CHOOSE r \in found : TRUE).email
        old   == AccountsOf(app, vols, adms)
        new   == [e \in DOMAIN old |-> IF e = email THEN Hash(new_password) ELSE old[e]]
    IN IF found = {}
       THEN [tokens |-> tokens, volunteers |-> vols, admins |-> adms, ok |-> FALSE,
             message |-> "Invalid or expired token."]
       ELSE [tokens |-> {r \in tokens : r.email # email},
             volunteers |-> IF app = "volunteer" THEN new ELSE vols,
             admins |-> IF app = "admin" THEN new ELSE adms,
             ok |-> TRUE, message |-> "Password successfully reset."]

\* the session and the timesheet tables, which the reset pages leave alone
timesheet_vars == <<projects, timesheets, project_id_seq, timesheet_id_seq,
                    authentication_status, volunteer_id, current_week, timesheet_df,
                    in_flight>>

\* the volunteer app creates its pool in every script run and has released
\* what it took; the dashboard has one connection and no pool
PoolAfter(app) == IF app = "volunteer" THEN 0 ELSE used_connections

\* render_password_reset(): the Send Reset Link button
ClickSendResetLink(app, email) ==
    /\ ~authentication_status
    /\ tokens_issued < MaxTokens
    /\ \E mail_ok \in BOOLEAN :
          LET r == send_reset_email(app, password_reset_tokens, volunteers, admins,
                                    email, Token(tokens_issued + 1), mail_ok)
          IN /\ password_reset_tokens' = r.tokens
             /\ tokens_issued' = tokens_issued + r.drawn
             /\ outbox' = outbox \cup r.mail
             /\ retired' = retired \cup
                    {t.token : t \in {u \in password_reset_tokens : u \notin r.tokens}}
             /\ result' = Report("send_reset_email", r.message, NoDf, "",
                                 [app |-> app, email |-> email, ok |-> r.ok,
                                  token |-> r.token], {}, 0, 0)
    /\ used_connections' = PoolAfter(app)
    /\ UNCHANGED <<volunteers, admins, timesheet_vars>>

\* render_password_reset(): the Reset Password button on a page opened with
\* ?reset_token=token
ClickResetPassword(app, token, new_password) ==
    /\ ~authentication_status
    /\ LET r == reset_password(app, password_reset_tokens, volunteers, admins,
                               token, new_password)
       IN /\ password_reset_tokens' = r.tokens
          /\ volunteers' = r.volunteers
          /\ admins' = r.admins
          /\ retired' = IF r.ok THEN retired \cup {token} ELSE retired
          /\ result' = Report("reset_password", r.message, NoDf, "",
                              [app |-> app, token |-> token, ok |-> r.ok], {}, 0, 0)
    /\ used_connections' = PoolAfter(app)
    /\ UNCHANGED <<outbox, tokens_issued, timesheet_vars>>

\* an hour passes after a token was stored: expires_at > NOW() is false from then on
TokenExpires ==
    /\ \E r \in password_reset_tokens :
          /\ ~r.expired
          /\ password_reset_tokens' =
                 (password_reset_tokens \ {r}) \cup {[r EXCEPT !.expired = TRUE]}
    /\ result' = Report("expire", "", NoDf, "", 0, {}, 0, 0)
    /\ UNCHANGED <<volunteers, admins, outbox, tokens_issued, retired,
                   used_connections, timesheet_vars>>

\* the tokens of the links that were mailed or could be guessed from them
LinkTokens == {Token(n) : n \in 1..MaxTokens} \cup {NoToken}

SendAny == \E app \in Apps, email \in Emails : ClickSendResetLink(app, email)

ResetAny ==
    \E app \in Apps, token \in LinkTokens, pw \in Passwords :
        ClickResetPassword(app, token, pw)

NextAccount == SendAny \/ ResetAny \/ TokenExpires

AccountSpec == Init /\ [][NextAccount]_vars

(***************************************************************************)
(* Pending-list specification: the admin's Pending Hours tab is rendered   *)
(* in one script run and a click on one of its Approve buttons is handled  *)
(* in the next, while a volunteer saves and submits in between             *)
(***************************************************************************)
\* get_pending_timesheets() as the list it returns: ORDER BY t.date DESC,
\* rows of the same date in any order
PendingLists(ts, ps) ==
    LET P == get_pending_timesheets(ts, ps)
        n == Cardinality(P)
        dateOf(id) == (CHOOSE t \in P : t.id = id).date
    IN {f \in [1..n -> {t.id : t \in P}] :
           /\ \A i, j \in 1..n : i # j => f[i] # f[j]
           /\ \A i, j \in 1..n : i < j => dateOf(f[i]) >= dateOf(f[j])}

\* the tab as the last script run drew it: button approve_{i} next to rows[i]
ShownPage(rows) == [pc |-> "shown", rows |-> rows]

IdlePage == [pc |-> "idle", rows |-> <<>>]

\* render_pending_hours() in a script run without a click
RenderPending ==
    /\ \E rows \in PendingLists(timesheets, projects) :
           in_flight' = [in_flight EXCEPT !["admin"] = ShownPage(rows)]
    /\ in_flight' # in_flight
    /\ UNCHANGED <<projects, timesheets, project_id_seq, timesheet_id_seq,
                   authentication_status, volunteer_id, current_week, timesheet_df,
                   result, account_vars, used_connections>>

\* a click on the button approve_{i} of the shown tab: the script runs again,
\* fetches the list again and st.button(key=approve_{i}) is true in the
\* iteration of the same index; after a success st.rerun() draws the tab again
ClickApproveAt(i) ==
    /\ in_flight["admin"].pc = "shown"
    /\ i \in 1..Len(in_flight["admin"].rows)
    /\ \E now \in PendingLists(timesheets, projects) :
          IF i <= Len(now)
          THEN /\ timesheets' = approve_timesheet(timesheets, now[i])
               /\ result' = Report("approve", "ok", NoDf, "", now[i], {now[i]}, 0, i)
               /\ \E rows \in PendingLists(timesheets', projects) :
                      in_flight' = [in_flight EXCEPT !["admin"] = ShownPage(rows)]
          ELSE /\ timesheets' = timesheets
               /\ result' = Report("approve", "no button", NoDf, "", 0, {}, 0, i)
               /\ in_flight' = [in_flight EXCEPT !["admin"] = ShownPage(now)]
    /\ UNCHANGED <<projects, project_id_seq, timesheet_id_seq,
                   authentication_status, volunteer_id, current_week, timesheet_df,
                   account_vars, used_connections>>

\* a Saved entry of volunteer 1 in the cell the session edits, and two
\* Pending entries of volunteer 2 before and after it
ApproveEntries ==
    {Entry(1, 1, 1, ThisWeek + 1, 250, "Saved"),
     Entry(2, 2, 1, ThisWeek, 200, "Pending"),
     Entry(3, 2, 2, ThisWeek + 3, 150, "Pending")}

InitApprove ==
    /\ timesheets \in SUBSET ApproveEntries
    /\ projects = EarlierProjects
    /\ project_id_seq = 3
    /\ timesheet_id_seq = ReturnSeq
    /\ authentication_status = TRUE
    /\ volunteer_id = 1
    /\ current_week = ThisWeek
    /\ timesheet_df = create_timesheet_dataframe(timesheets, projects, TRUE, 1, ThisWeek)
    /\ result = Report("init", "", NoDf, "", 0, {}, 0, 0)
    /\ in_flight = [admin |-> IdlePage]
    /\ InitAccounts
    /\ used_connections = 0

ApproveAny == \E i \in 1..Cardinality(timesheets) : ClickApproveAt(i)

NextApprove == RenderPending \/ ApproveAny \/ ReturnSave \/ ReturnSubmit

ApproveSpec == InitApprove /\ [][NextApprove]_vars

(***************************************************************************)
(* Properties                                                              *)
(***************************************************************************)
IsSave(r) == r.op \in {"save", "submit"}

Committed(r) == IsSave(r) /\ r.outcome = "committed"

KeyOf(t) == <<t.volunteer_id, t.project_id, t.date>>

\* the hours cell of row r, column i of a grid is a number above 0
Positive(df, r, i) == df.rows[r].Hours[i] # NaN /\ df.rows[r].Hours[i][1] > 0

\* row r, column i of the grid is a cell the spec lets through: hours > 0 and
\* a project name that is neither empty nor missing
GoodCell(df, r, i) == Positive(df, r, i) /\ df.rows[r].Project \notin {"", PyNone}

\* C1: approval is monotonic: a fact that is Approved keeps status Approved
\* across every step (Save, Submit, approve, week navigation, delete).
C1_ApprovalMonotonic ==
    [][\A t \in timesheets : t.status = "Approved" =>
          \A u \in timesheets' : u.id = t.id => u.status = "Approved"]_vars

\* C2: every row a save creates or changes comes from a cell with hours > 0
\* and a non-blank project, in that project and on that cell's day; cells
\* with hours <= 0, missing hours or a blank project produce nothing.
C2_OnlyGoodCellsPersist ==
    [][IsSave(result') =>
          \A t \in timesheets' \ timesheets :
              \E r \in 1..GridRows, i \in 1..WeekLen :
                  /\ GoodCell(result'.df, r, i)
                  /\ t.volunteer_id = volunteer_id
                  /\ t.date = current_week + (i - 1)
                  /\ \E p \in projects' :
                        p.id = t.project_id /\ p.name = result'.df.rows[r].Project]_vars

\* a save went through although the grid held, next to a good cell, a cell
\* with hours <= 0, missing hours, or hours under a blank project
C2_Witness ==
    /\ Committed(result)
    /\ result.written # {}
    /\ \E r \in 1..GridRows, i \in 1..WeekLen :
          \/ result.df.rows[r].Hours[i] = NaN
          \/ result.df.rows[r].Hours[i][1] < 0
          \/ Positive(result.df, r, i) /\ result.df.rows[r].Project = ""

\* C3: saving the same grid with the same status a second time in a row
\* leaves both tables as the first call left them.
C3_SaveIdempotent ==
    [][(IsSave(result') /\ result'.nth = 2) =>
          (timesheets' = timesheets /\ projects' = projects)]_vars

\* the second of two identical saves that wrote rows
C3_Witness == Committed(result) /\ result.nth = 2 /\ result.written # {}

\* the grid the loader returns in the current state
LoadedNow ==
    create_timesheet_dataframe(timesheets, projects, authentication_status,
                               volunteer_id, current_week)

\* the cells of a grid that are not blank: a named project and hours other than 0
NonBlankCells(g) ==
    {c \in {<<g.rows[r].Project, i, g.rows[r].Hours[i]>> :
                r \in 1..Len(g.rows), i \in 1..WeekLen} :
        c[1] # "" /\ c[3] # <<0>>}

\* C4 as claimed: after a committed save of V, the loaded grid's non-blank
\* cells are exactly the non-blank cells of V, whatever was persisted before.
C4_RoundTripExact ==
    Committed(result) =>
        \A loaded \in {LoadedNow} : NonBlankCells(loaded) = NonBlankCells(result.df)

\* hours shown for project p in column i of a grid (0 when p has no row)
CellValue(g, p, i) ==
    LET rs == {r \in 1..Len(g.rows) : g.rows[r].Project = p}
    IN IF rs = {} THEN 0 ELSE g.rows[CHOOSE r \in rs : TRUE].Hours[i][1]

\* the rows of V with a cell above 0 for project p in column i
SlotsOf(df, p, i) == {r \in 1..Len(df.rows) : df.rows[r].Project = p /\ Positive(df, r, i)}

LastSlot(S) == CHOOSE r \in S : \A q \in S : q <= r

\* C4 amended: after a committed save of V the loaded grid shows, for every
\* project and day, the hours of V's last slot with hours > 0 for them,
\* rounded to two decimals, and where V has no such cell what the loader
\* showed before the save.
C4_RoundTripMerged ==
    [][Committed(result') =>
          \A before \in {LoadedNow}, after \in {LoadedNow'} :
              \A p \in Names, i \in 1..WeekLen :
                  CellValue(after, p, i) =
                      IF SlotsOf(result'.df, p, i) # {}
                      THEN ToFloat(ToNumeric(
                               result'.df.rows[LastSlot(SlotsOf(result'.df, p, i))].Hours[i][1]))
                      ELSE CellValue(before, p, i)]_vars

\* a committed save into a week that already held another entry of the
\* volunteer, with a cell on the last day of the week
C4_Witness ==
    /\ Committed(result)
    /\ \E r \in 1..GridRows : GoodCell(result.df, r, WeekLen)
    /\ \E t \in timesheets :
          /\ t.volunteer_id = volunteer_id
          /\ t.id \notin result.written
          /\ t.date >= current_week /\ t.date < current_week + WeekLen

\* no two rows of timesheets have the same (volunteer_id, project_id, date)
UniqueKeys == \A t, u \in timesheets : KeyOf(t) = KeyOf(u) => t.id = u.id

\* C5: after any sequence of saves the table has at most one fact per
\* (volunteer, project, date), and a save keeps every existing row (same id,
\* same key), giving the rows it writes the status of the save.
C5_OneFactPerKey ==
    /\ []UniqueKeys
    /\ [][IsSave(result') =>
             \A t \in timesheets : \E u \in timesheets' :
                 /\ u.id = t.id /\ KeyOf(u) = KeyOf(t)
                 /\ (u.id \in result'.written => u.status = result'.status)
                 /\ (u.id \notin result'.written => u = t)]_vars

\* the same project in two slots with hours on the same day, saved as one row
C5_Witness ==
    /\ Committed(result)
    /\ Positive(result.df, 1, 2) /\ Positive(result.df, 2, 2)
    /\ result.df.rows[1].Project = result.df.rows[2].Project
    /\ Cardinality(result.written) = 1
    /\ Cardinality(timesheets) = 1

\* C6: a save is all-or-nothing: when a write fails, both tables are as
\* before the call; when it commits, every cell that passed the filter has
\* its row, with the status of the save and the hours of one of the slots.
C6_AllOrNothing ==
    [][IsSave(result') =>
          /\ (result'.outcome # "committed" =>
                 (timesheets' = timesheets /\ projects' = projects))
          /\ (result'.outcome = "committed" =>
                 \A r \in 1..GridRows, i \in 1..WeekLen :
                     (Positive(result'.df, r, i) /\ result'.df.rows[r].Project # "") =>
                         \E t \in timesheets', p \in projects' :
                             /\ p.name = result'.df.rows[r].Project
                             /\ t.project_id = p.id
                             /\ t.volunteer_id = volunteer_id
                             /\ t.date = current_week + (i - 1)
                             /\ t.status = result'.status
                             /\ t.hours \in
                                  {ToNumeric(result'.df.rows[q].Hours[i][1]) :
                                      q \in SlotsOf(result'.df, p.name, i)})]_vars

\* a save that failed after it had already written a row
C6_Witness == IsSave(result) /\ result.outcome = "error" /\ result.partial > 0

\* C7: delete_project of a project with hours logged against it answers
\* "Cannot delete project..." and changes neither table; of a project
\* without hours it removes the project and no fact.
C7_DeleteBlockedWhileUsed ==
    [][result'.op = "delete" =>
          LET used == \E t \in timesheets, p \in projects :
                          p.name = result'.arg /\ t.project_id = p.id
          IN /\ timesheets' = timesheets
             /\ (used => (result'.outcome = "Cannot delete project" /\ projects' = projects))
             /\ (~used => (result'.outcome = "ok" /\
                           projects' = {p \in projects : p.name # result'.arg}))]_vars

\* a delete was refused for a project that facts refer to
C7_Witness ==
    /\ result.op = "delete"
    /\ result.outcome = "Cannot delete project"
    /\ \E t \in timesheets, p \in projects : p.name = result.arg /\ t.project_id = p.id

\* the cells of the grid that pass the filter
FilteredCells(df) ==
    {<<r, i>> \in (1..GridRows) \X (1..WeekLen) :
        Positive(df, r, i) /\ df.rows[r].Project # ""}

\* row t is the fact of the cell in row r, column i of the saved grid
FactOfCell(t, r, i) ==
    /\ t.id \in result.written
    /\ t.volunteer_id = volunteer_id
    /\ t.date = current_week + (i - 1)
    /\ t.status = result.status
    /\ \E p \in projects : p.id = t.project_id /\ p.name = result.df.rows[r].Project

C9_ApprovedCountsFromThenOn ==
    [][/\ (result'.op = "approve" =>
             \E t \in timesheets, u \in timesheets' :
                 /\ t.id = result'.arg /\ u.id = t.id
                 /\ t.status = "Pending" /\ u.status = "Approved"
                 /\ t \notin get_approved_timesheets(timesheets, projects, t.volunteer_id)
                 /\ u \in get_approved_timesheets(timesheets', projects', t.volunteer_id)
                 /\ ApprovedTotal(timesheets', t.volunteer_id) =
                        ApprovedTotal(timesheets, t.volunteer_id) + t.hours)
       /\ \A t \in get_approved_timesheets(timesheets, projects, volunteer_id) :
             \E u \in get_approved_timesheets(timesheets', projects', volunteer_id) :
                 u.id = t.id /\ ApprovedTotal(timesheets', volunteer_id) >= u.hours]_vars

\* C10: the anchor current_week is a Sunday and the grid's columns are the
\* seven consecutive days starting at the anchor.
C10_SundayAlignedWeek ==
    /\ Weekday(current_week) = 6
    /\ timesheet_df.columns = [i \in 1..WeekLen |-> DayLabel(current_week + (i - 1))]

\* the facts of the session's volunteer for the project named p on day column i
FactsOfKey(ts, ps, p, i) ==
    {t \in ts : /\ t.volunteer_id = volunteer_id
                /\ t.date = current_week + (i - 1)
                /\ \E q \in ps : q.id = t.project_id /\ q.name = p}

\* project p has hours above 0 in two or more slots of day column i
DuplicateSlots(df, p, i) == Cardinality(SlotsOf(df, p, i)) >= 2

\* hours of the last slot of project p in day column i
LastSlotHours(df, p, i) == df.rows[LastSlot(SlotsOf(df, p, i))].Hours[i][1]

\* C11 as claimed: a save of a grid with the same project in two slots with
\* hours > 0 on one day leaves exactly one fact for that key, and its hours
\* are exactly the value of the last such slot.
C11_LastSlotExact ==
    [][IsSave(result') =>
          \A p \in Names, i \in 1..WeekLen :
              DuplicateSlots(result'.df, p, i) =>
                  \E t \in timesheets' :
                      /\ FactsOfKey(timesheets', projects', p, i) = {t}
                      /\ ToFloat(t.hours) = LastSlotHours(result'.df, p, i)]_vars

\* C11 amended: a save that commits leaves exactly one fact for that key,
\* whose hours are the value of the last such slot rounded to two decimals
\* (not the first slot's value, not the sum); a save that does not commit
\* leaves the facts of that key as they were.
C11_LastSlotRounded ==
    [][IsSave(result') =>
          \A p \in Names, i \in 1..WeekLen :
              DuplicateSlots(result'.df, p, i) =>
                  IF result'.outcome = "committed"
                  THEN \E t \in timesheets' :
                          /\ FactsOfKey(timesheets', projects', p, i) = {t}
                          /\ t.hours = ToNumeric(LastSlotHours(result'.df, p, i))
                  ELSE FactsOfKey(timesheets', projects', p, i) =
                           FactsOfKey(timesheets, projects, p, i)]_vars

\* a committed save of two slots of one project on one day whose values
\* differ after rounding, the fact holding the second one
C11_Witness ==
    /\ Committed(result)
    /\ DuplicateSlots(result.df, "Food Bank", 2)
    /\ ToNumeric(result.df.rows[1].Hours[2][1]) # ToNumeric(result.df.rows[2].Hours[2][1])
    /\ \E t \in timesheets :
          /\ FactsOfKey(timesheets, projects, "Food Bank", 2) = {t}
          /\ t.hours = ToNumeric(result.df.rows[2].Hours[2][1])

\* the facts of the session's volunteer dated in the seven days from the anchor
FactsInWeek ==
    {t \in timesheets : /\ t.volunteer_id = volunteer_id
                        /\ t.date >= current_week
                        /\ t.date <= current_week + 6}

\* the names of the projects with such facts
ProjectsInWeek == {p.name : p \in {q \in projects : \E t \in FactsInWeek : t.project_id = q.id}}

\* the project names of the rows of a grid, and the rows that carry a name
RowNames(g) == {g.rows[r].Project : r \in 1..Len(g.rows)} \ {""}

RowsOfName(g, p) == {r \in 1..Len(g.rows) : g.rows[r].Project = p}

\* C12: with at most 5 projects in the week, the loaded grid has one row
\* per project with a fact in [anchor, anchor+6]; its cell for day d holds the
\* hours of the fact (volunteer, p, d) and 0 when there is none; projects
\* whose facts are all outside the week have no row.
C12_LoadedCells ==
    Cardinality(ProjectsInWeek) <= GridRows =>
        /\ RowNames(timesheet_df) = ProjectsInWeek
        /\ \A p \in ProjectsInWeek : Cardinality(RowsOfName(timesheet_df, p)) = 1
        /\ \A p \in ProjectsInWeek, i \in 1..WeekLen :
              LET facts == {t \in FactsInWeek :
                               /\ t.date = current_week + (i - 1)
                               /\ \E q \in projects : q.id = t.project_id /\ q.name = p}
              IN IF facts = {}
                 THEN CellValue(timesheet_df, p, i) = 0
                 ELSE \E t \in facts : /\ facts = {t}
                                       /\ CellValue(timesheet_df, p, i) = t.hours * 10

\* a reloaded grid with a project on two days of the week, while the
\* volunteer also has a fact before the week and one after it
C12_Witness ==
    /\ result.op = "prev"
    /\ \E p \in ProjectsInWeek : \E i, j \in 1..WeekLen :
          i # j /\ CellValue(timesheet_df, p, i) > 0 /\ CellValue(timesheet_df, p, j) > 0
    /\ \E t, u \in timesheets :
          /\ t.volunteer_id = volunteer_id /\ t.date < current_week
          /\ u.volunteer_id = volunteer_id /\ u.date > current_week + 6

\* C13: the loaded grid has exactly 5 rows: with k < 5 projects in the week,
\* k distinct project rows followed by 5 - k blank rows; with 5 or more, 5
\* distinct project rows with facts in the week and no blank row.
C13_FiveSlots ==
    LET k == Cardinality(ProjectsInWeek)
        shown == IF k < GridRows THEN k ELSE GridRows
    IN /\ Len(timesheet_df.rows) = GridRows
       /\ \A r \in 1..GridRows :
             IF r <= shown
             THEN /\ timesheet_df.rows[r].Project \in ProjectsInWeek
                  /\ \A q \in 1..shown :
                        timesheet_df.rows[q].Project = timesheet_df.rows[r].Project => q = r
             ELSE timesheet_df.rows[r] = BlankRow

\* a reloaded grid for a week with six projects: five rows, none blank
C13_Witness ==
    /\ result.op = "prev"
    /\ Cardinality(ProjectsInWeek) = 6
    /\ Cardinality(RowNames(timesheet_df)) = GridRows

\* C14: a save, submit or approve keeps every fact (same id, same key); a
\* fact keeps its hours unless that save wrote it; a new fact appears only
\* for a key that had none, with hours above 0.
C14_NoFactDeleted ==
    [][result'.op \in {"save", "submit", "approve"} =>
          /\ \A t \in timesheets : \E u \in timesheets' :
                 /\ u.id = t.id /\ KeyOf(u) = KeyOf(t)
                 /\ ((IsSave(result') /\ u.id \in result'.written) \/ u.hours = t.hours)
          /\ \A u \in timesheets' :
                 (\A t \in timesheets : t.id # u.id) =>
                     /\ IsSave(result')
                     /\ u.hours > 0
                     /\ \A t \in timesheets : KeyOf(t) # KeyOf(u)]_vars

\* a save of a grid without the row of a project that has a fact in the
\* shown week: nothing is written and the fact is still there
C14_Witness ==
    /\ result.op = "save"
    /\ result.outcome = "no_hours"
    /\ RowNames(result.df) = {}
    /\ FactsInWeek # {}

\* C20: a fact with status Pending does not get status Saved in any step.
C20_PendingNeverSaved ==
    [][\A t \in timesheets : t.status = "Pending" =>
          \A u \in timesheets' : u.id = t.id => u.status # "Saved"]_vars

\* the rows of the table with status 'Approved'
ApprovedFacts == {t \in timesheets : t.status = "Approved"}

\* C15: every hours figure of the statistics page (total, per project, per
\* date, per week) is computed from the Approved facts of the volunteer
\* only: it is what it would be without the Saved and Pending facts.
C15_OnlyApprovedCounts ==
    result.op = "stats" =>
        \A shown \in {render_statistics(ApprovedFacts, projects, volunteer_id)} :
            /\ result.arg.total_hours = shown.total_hours
            /\ result.arg.project_totals = shown.project_totals
            /\ result.arg.weekly_hours = shown.weekly_hours
            /\ result.arg.daily_hours = shown.daily_hours

\* the dates of a volunteer's facts
DatesOf(v) == {t.date : t \in {u \in timesheets : u.volunteer_id = v}}

\* C16: weeks active is max(floor((max_date - min_date) / 7), 1) over the
\* volunteer's facts, 1 without facts, and so at least 1 on every page.
C16_WeeksActive ==
    result.op = "stats" =>
        /\ result.arg.num_weeks >= 1
        /\ (DatesOf(volunteer_id) = {} => result.arg.num_weeks = 1)
        /\ \A lo, hi \in DatesOf(volunteer_id) :
              (\A d \in DatesOf(volunteer_id) : lo <= d /\ d <= hi) =>
                  \E q \in 0..(hi - lo) :
                      /\ 7 * q <= hi - lo /\ hi - lo < 7 * (q + 1)
                      /\ result.arg.num_weeks = IF q >= 1 THEN q ELSE 1

\* a statistics page of a volunteer whose facts, some of them approved,
\* are all on one date
C16_Witness ==
    /\ result.op = "stats"
    /\ Cardinality(DatesOf(volunteer_id)) = 1
    /\ result.arg.total_hours > 0
    /\ result.arg.num_weeks = 1

\* C17: when both concurrent saves of the cell have committed, the table
\* holds exactly one fact for the key, with the hours of one of the two saves.
C17_OneFactAfterRace ==
    (\A s \in Sessions : in_flight[s].pc = "done" /\ in_flight[s].outcome = "committed") =>
        \E t \in timesheets :
            /\ FactsOfKey(timesheets, projects, "Food Bank", 2) = {t}
            /\ t.hours \in {ToNumeric(LastSlotHours(in_flight[s].df, "Food Bank", 2)) :
                                s \in Sessions}

\* C18: no step of a delete_project running alongside saves removes a
\* committed fact.
C18_CommittedFactKept ==
    [][\A t \in timesheets : \E u \in timesheets' : u.id = t.id]_vars

\* C19: a fact whose committed status is Saved does not become Approved in
\* any step, whatever the admin's fetched list holds.
C19_OnlyPendingApproved ==
    [][\A t \in timesheets : t.status = "Saved" =>
          \A u \in timesheets' : u.id = t.id => u.status # "Approved"]_vars

\* C21: when both sessions have finished a save that names a project missing
\* from the table, one project row has the name and neither save was aborted.
C21_CreateIfAbsent ==
    (\A s \in Sessions : in_flight[s].pc = "done") =>
        /\ Cardinality({p \in projects : p.name = "Food Bank"}) = 1
        /\ \A s \in Sessions : in_flight[s].outcome = "committed"

\* C22: a save creates no project whose name is only whitespace and no fact
\* under such a project.
C22_WhitespaceDropped ==
    [][IsSave(result') =>
          /\ \A p \in projects' : p.name = " " => p \in projects
          /\ \A t \in timesheets' \ timesheets :
                 \A p \in projects' : p.id = t.project_id => p.name # " "]_vars

\* the success messages of the two buttons
SuccessMessages == {"Timesheet saved successfully!", "Timesheet submitted successfully!"}

\* C26: after a click on Save or Submit the page shows the success message
\* only if save_to_database committed.
C26_SuccessOnlyWhenCommitted ==
    (IsSave(result) /\ \E k \in 1..Len(result.messages) : result.messages[k] \in SuccessMessages)
        => result.outcome = "committed"

\* C24: the first page after login shows the grid loaded from the
\* volunteer's facts of the displayed week.
C24_SeededAtLogin ==
    [][result'.op = "login" =>
          timesheet_df' = create_timesheet_dataframe(timesheets', projects', TRUE,
                                                     volunteer_id', current_week')]_vars

\* date d lies in the displayed week
InDisplayedWeek(d) == d >= current_week /\ d <= current_week + (WeekLen - 1)

\* C25: a save leaves the facts of other volunteers and of other weeks as
\* they were, and adds facts of the session's volunteer in the displayed week
\* only.
C25_SaveFrame ==
    [][IsSave(result') =>
          /\ \A t \in timesheets :
                 (t.volunteer_id # volunteer_id \/ ~InDisplayedWeek(t.date))
                     => t \in timesheets'
          /\ \A t \in timesheets' \ timesheets :
                 t.volunteer_id = volunteer_id /\ InDisplayedWeek(t.date)]_vars

\* a committed save has written a fact while another volunteer's fact and a
\* fact of the same volunteer in another week are stored
C25_Witness ==
    /\ Committed(result)
    /\ result.written # {}
    /\ \E t \in timesheets : t.volunteer_id # volunteer_id
    /\ \E t \in timesheets : t.volunteer_id = volunteer_id /\ ~InDisplayedWeek(t.date)

\* the facts of the session's volunteer
OwnFacts == {t \in timesheets : t.volunteer_id = volunteer_id}

\* C28: the grid and the statistics shown to a volunteer are those computed
\* from the volunteer's own facts alone, whatever other volunteers have stored.
C28_OwnDataOnly ==
    /\ timesheet_df = create_timesheet_dataframe(OwnFacts, projects, TRUE,
                                                  volunteer_id, current_week)
    /\ result.op = "stats" =>
           result.arg = render_statistics(OwnFacts, projects, volunteer_id)

\* the statistics were rendered for a volunteer with approved facts while
\* another volunteer has an approved fact in the displayed week
C28_Witness ==
    /\ result.op = "stats"
    /\ result.arg.total_hours > 0
    /\ \E t \in timesheets :
           /\ t.volunteer_id # volunteer_id
           /\ t.status = "Approved"
           /\ InDisplayedWeek(t.date)

\* C27: the fact approved by a click on the i-th Approve button is the fact
\* the tab showed in its i-th row.
C27_ApprovesShownRow ==
    [][(result'.op = "approve" /\ result'.nth > 0 /\ result'.written # {})
          => result'.arg = in_flight["admin"].rows[result'.nth]]_vars

\* C29: send_reset_email reports success only if the token of the link it
\* mailed is stored for that e-mail; when no token was stored nothing is
\* mailed and failure is reported.
C29_LinkOnlyWithStoredToken ==
    [][result'.op = "send_reset_email" =>
          /\ result'.arg.ok =>
                 \E r \in password_reset_tokens' :
                     r.email = result'.arg.email /\ r.token = result'.arg.token
          /\ \A m \in outbox' \ outbox :
                 \E r \in password_reset_tokens' : r.email = m.to /\ r.token = m.token]_vars

\* C30: a reset_password with a token that has reset a password before, or
\* that a newer token of the same e-mail has replaced, answers "Invalid or
\* expired token." and changes no password.
C30_TokenSingleUse ==
    [][(result'.op = "reset_password" /\ result'.arg.token \in retired) =>
          /\ ~result'.arg.ok
          /\ result'.outcome = "Invalid or expired token."
          /\ volunteers' = volunteers
          /\ admins' = admins]_vars

\* a reset was tried with a token that had reset a password or been replaced,
\* while a newer token of an account is stored
C30_Witness ==
    /\ result.op = "reset_password"
    /\ result.arg.token \in retired
    /\ ~result.arg.ok
    /\ password_reset_tokens # {}

\* C23: after every operation of the volunteer app no connection of the pool
\* is checked out.
C23_AllConnectionsReleased == used_connections = 0

====
